---- MODULE Spec2Model ----
(***************************************************************************)
(* Model of the Gmail "unnecessary email" filter: the email content        *)
(* normalizer (utils/email_parser.py), the classification-response parser  *)
(* (modules/llm/analyzer.py) and the processing loop of main.py.           *)
(*                                                                         *)
(* Text is modelled as a sequence of Unicode code points, so that          *)
(* upper(), split(), the \s class of re and the base64/charset decoding    *)
(* are computed on characters as the Python code computes them.            *)
(***************************************************************************)
EXTENDS Integers, Sequences, FiniteSets, TLC

VARIABLES
    pc,             \* position of the running operation
    response_text,  \* analyzer: the oracle's response text
    is_necessary,   \* analyzer / main: the verdict of the current message
    html_content,   \* email_parser: the argument of extract_text_from_html
    html_text,      \* email_parser: the text extract_text_from_html returned
    message,        \* email_parser: the Gmail API message object
    body_html,      \* email_parser: the html accumulator of the traversal
    body_text,      \* email_parser: the text accumulator of the traversal
    email_data,     \* email_parser: the record parse_email_content returned
    retry_attempts, \* main: config.RETRY_ATTEMPTS
    mailbox,        \* provider: the labels of the account, the relabeled messages
    label_id,       \* main: the id ensure_label_exists returned
    emails,         \* main: the list get_emails returned
    i,              \* main: index in emails of the message being processed
    attempt,        \* the attempt counter of the running retry loop
    emails_processed,   \* main: the results of the classified messages
    unnecessary_emails, \* main: the results of the relabeled messages
    saved,          \* result sink: the summaries save_results wrote
    requests,       \* history: the API requests issued and the delays waited
    fetched,        \* history: the messages whose content fetch returned
    verdict,        \* history: what check_necessity returned for each message
    raised,         \* history: the exceptions the operations raised
    label_attempts, \* history: the rounds of the loop of ensure_label_exists
    failure         \* history: the step of main that made it return early

responseVars == <<response_text, is_necessary>>
htmlVars     == <<html_content, html_text>>
parserVars   == <<message, body_html, body_text, email_data>>

mainVars     == <<retry_attempts, mailbox, label_id, emails, i, attempt,
                 emails_processed, unnecessary_emails, saved, requests,
                 fetched, verdict, raised, label_attempts, failure>>

vars == <<pc, response_text, is_necessary, html_content, html_text,
          message, body_html, body_text, email_data, retry_attempts, mailbox,
          label_id, emails, i, attempt, emails_processed, unnecessary_emails,
          saved, requests, fetched, verdict, raised, label_attempts, failure>>

(***************************************************************************)
(* Bounds of the model.                                                    *)
(***************************************************************************)
MaxFragments == 3
MaxHtmlFragments == 3
MaxNodes == 3
MaxHeaders == 3
MaxEmails == 2
MaxRetry == 2
MaxHttpErrors == 3

(***************************************************************************)
(* The state of main before it runs (the value of its variables in the     *)
(* specifications of the pure functions).                                  *)
(***************************************************************************)
NoRequests ==
    [labels_list |-> 0, labels_create |-> 0, messages_list |-> 0,
     messages_get |-> [k \in 1..MaxEmails |-> 0],
     generate |-> [k \in 1..MaxEmails |-> 0],
     messages_modify |-> [k \in 1..MaxEmails |-> 0],
     sleeps |-> [ensure_label_exists |-> 0, get_emails |-> 0,
                 get_email_content |-> [k \in 1..MaxEmails |-> 0],
                 move_to_label |-> [k \in 1..MaxEmails |-> 0]]]

MainNotStarted ==
    /\ retry_attempts = 0
    /\ mailbox = [labels |-> {}, relabeled |-> {}]
    /\ label_id = <<>>
    /\ emails = <<>>
    /\ i = 0
    /\ attempt = 0
    /\ emails_processed = <<>>
    /\ unnecessary_emails = <<>>
    /\ saved = <<>>
    /\ requests = NoRequests
    /\ fetched = {}
    /\ verdict = [k \in 1..MaxEmails |-> "none"]
    /\ raised = {}
    /\ label_attempts = <<>>
    /\ failure = "none"

(***************************************************************************)
(* Python str primitives on code-point sequences.                          *)
(***************************************************************************)
\* str.isspace() / the \s class of re on str patterns.
IsSpace(c) ==
    \/ c \in 9..13
    \/ c \in 28..32
    \/ c \in {133, 160, 5760, 8232, 8233, 8239, 8287, 12288}
    \/ c \in 8192..8202

\* str.upper() and str.lower(), per character (ASCII and Latin-1 letters whose
\* case mapping is a single code point).
UpperChar(c) ==
    IF c \in 97..122 THEN c - 32
    ELSE IF c \in (224..254) \ {247} THEN c - 32
    ELSE c

LowerChar(c) ==
    IF c \in 65..90 THEN c + 32
    ELSE IF c \in (192..222) \ {215} THEN c + 32
    ELSE c

upper(s) == [k \in 1..Len(s) |-> UpperChar(s[k])]

lower(s) == [k \in 1..Len(s) |-> LowerChar(s[k])]

\* The slice s[a..b] (1-based, inclusive), empty when a > b.
Slice(s, a, b) == IF a > b THEN <<>> ELSE SubSeq(s, a, b)

\* `sub in s` of Python: sub occurs in s as a contiguous substring.
Contains(s, sub) ==
    \E k \in 1..(Len(s) - Len(sub) + 1) : SubSeq(s, k, k + Len(sub) - 1) = sub

\* Position of the first character at or after k that satisfies / fails
\* IsSpace; Len(s) + 1 when there is none.
RECURSIVE SkipSpace(_, _)
SkipSpace(s, k) ==
    IF k > Len(s) \/ ~IsSpace(s[k]) THEN k ELSE SkipSpace(s, k + 1)

RECURSIVE SkipNonSpace(_, _)
SkipNonSpace(s, k) ==
    IF k > Len(s) \/ IsSpace(s[k]) THEN k ELSE SkipNonSpace(s, k + 1)

\* str.split() with no argument: the maximal runs of non-whitespace.
RECURSIVE SplitFrom(_, _)
SplitFrom(s, k) ==
    LET a == SkipSpace(s, k)
        b == SkipNonSpace(s, a)
    IN  IF a > Len(s) THEN <<>>
        ELSE <<Slice(s, a, b - 1)>> \o SplitFrom(s, b)

split(s) == SplitFrom(s, 1)

\* Position of the first occurrence of character c at or after k; 0 if none.
RECURSIVE IndexOf(_, _, _)
IndexOf(s, c, k) ==
    IF k > Len(s) THEN 0
    ELSE IF s[k] = c THEN k
    ELSE IndexOf(s, c, k + 1)

\* s.split('\n')[0]
FirstLineOf(s) ==
    LET p == IndexOf(s, 10, 1)
    IN  IF p = 0 THEN s ELSE Slice(s, 1, p - 1)

\* String literals of the sources.
YES == <<89, 69, 83>>
NO  == <<78, 79>>

(***************************************************************************)
(* modules/llm/analyzer.py                                                 *)
(***************************************************************************)
\* first_word = response_text.split()[0].upper() if response_text.split() else ""
first_word(text) ==
    IF split(text) # <<>> THEN upper(split(text)[1]) ELSE <<>>

\* first_line = response_text.split('\n')[0].upper() if '\n' in response_text
\*              else response_text.upper()
first_line(text) ==
    IF IndexOf(text, 10, 1) # 0 THEN upper(FirstLineOf(text)) ELSE upper(text)

\* Mutant of _parse_necessity_response: the first word is compared without
\* .upper().
parse_necessity_response_case_sensitive(text) ==
    LET word == IF split(text) # <<>> THEN split(text)[1] ELSE <<>>
    IN  IF text = <<>> THEN TRUE
        ELSE IF word = YES THEN TRUE
        ELSE IF word = NO THEN FALSE
        ELSE IF Contains(first_line(text), YES) /\ ~Contains(first_line(text), NO)
            THEN TRUE
        ELSE IF Contains(first_line(text), NO) /\ ~Contains(first_line(text), YES)
            THEN FALSE
        ELSE TRUE

\* EmailAnalyzer._parse_necessity_response: TRUE is "necessary".
parse_necessity_response(text) ==
    IF text = <<>> THEN TRUE
    ELSE IF first_word(text) = YES THEN TRUE
    ELSE IF first_word(text) = NO THEN FALSE
    ELSE IF Contains(first_line(text), YES) /\ ~Contains(first_line(text), NO)
        THEN TRUE
    ELSE IF Contains(first_line(text), NO) /\ ~Contains(first_line(text), YES)
        THEN FALSE
    ELSE TRUE

(***************************************************************************)
(* utils/email_parser.py: the re.sub passes of extract_text_from_html.     *)
(***************************************************************************)
\* Position of the first occurrence of pat in s starting at or after k;
\* 0 when there is none.
RECURSIVE Find(_, _, _)
Find(s, pat, k) ==
    IF k + Len(pat) - 1 > Len(s) THEN 0
    ELSE IF SubSeq(s, k, k + Len(pat) - 1) = pat THEN k
    ELSE Find(s, pat, k + 1)

\* re.sub(open + r'.*?' + close, ' ', s, flags=re.DOTALL), scanning from k:
\* the leftmost open, the nearest close after it, replaced by one space.
\* The match is case-sensitive: no re.IGNORECASE is passed.
RECURSIVE StripBlocksFrom(_, _, _, _)
StripBlocksFrom(s, open, close, k) ==
    LET a == Find(s, open, k)
        b == IF a = 0 THEN 0 ELSE Find(s, close, a + Len(open))
    IN  IF a = 0 \/ b = 0 THEN Slice(s, k, Len(s))
        ELSE Slice(s, k, a - 1) \o <<32>>
                \o StripBlocksFrom(s, open, close, b + Len(close))

StripBlocks(s, open, close) == StripBlocksFrom(s, open, close, 1)

\* "<script" "</script>" "<style" "</style>" "<head" "</head>"
ScriptOpen  == <<60, 115, 99, 114, 105, 112, 116>>
ScriptClose == <<60, 47, 115, 99, 114, 105, 112, 116, 62>>
StyleOpen   == <<60, 115, 116, 121, 108, 101>>
StyleClose  == <<60, 47, 115, 116, 121, 108, 101, 62>>
HeadOpen    == <<60, 104, 101, 97, 100>>
HeadClose   == <<60, 47, 104, 101, 97, 100, 62>>

\* Length of the match of r'<br\s*/?>|<\/p>' at position k of s; 0 if none.
BreakTagAt(s, k) ==
    LET br == <<60, 98, 114>>
        cp == <<60, 47, 112, 62>>
        j  == SkipSpace(s, k + 3)
        e  == IF j <= Len(s) /\ s[j] = 47 THEN j + 1 ELSE j
    IN  IF /\ k + 2 <= Len(s)
           /\ SubSeq(s, k, k + 2) = br
           /\ e <= Len(s)
           /\ s[e] = 62
        THEN e - k + 1
        ELSE IF k + 3 <= Len(s) /\ SubSeq(s, k, k + 3) = cp THEN 4
        ELSE 0

\* re.sub(r'<br\s*/?>|<\/p>', '\n', s)
RECURSIVE BreaksToNewlinesFrom(_, _)
BreaksToNewlinesFrom(s, k) ==
    IF k > Len(s) THEN <<>>
    ELSE IF BreakTagAt(s, k) > 0
        THEN <<10>> \o BreaksToNewlinesFrom(s, k + BreakTagAt(s, k))
    ELSE <<s[k]>> \o BreaksToNewlinesFrom(s, k + 1)

BreaksToNewlines(s) == BreaksToNewlinesFrom(s, 1)

\* Length of the match of r'<[^>]+>' at position k of s; 0 if none.
TagAt(s, k) ==
    LET e == IndexOf(s, 62, k + 1)
    IN  IF s[k] = 60 /\ e > k + 1 THEN e - k + 1 ELSE 0

\* re.sub(r'<[^>]+>', ' ', s)
RECURSIVE StripTagsFrom(_, _)
StripTagsFrom(s, k) ==
    IF k > Len(s) THEN <<>>
    ELSE IF TagAt(s, k) > 0 THEN <<32>> \o StripTagsFrom(s, k + TagAt(s, k))
    ELSE <<s[k]>> \o StripTagsFrom(s, k + 1)

StripTags(s) == StripTagsFrom(s, 1)

\* re.sub(r'\s+', ' ', s): every maximal run of whitespace (newlines
\* included) becomes one space.
RECURSIVE CollapseWhitespaceFrom(_, _)
CollapseWhitespaceFrom(s, k) ==
    IF k > Len(s) THEN <<>>
    ELSE IF IsSpace(s[k])
        THEN <<32>> \o CollapseWhitespaceFrom(s, SkipSpace(s, k))
    ELSE <<s[k]>> \o CollapseWhitespaceFrom(s, k + 1)

CollapseWhitespace(s) == CollapseWhitespaceFrom(s, 1)

\* re.sub(r'\n+', '\n', s)
RECURSIVE CollapseNewlinesFrom(_, _)
CollapseNewlinesFrom(s, k) ==
    IF k > Len(s) THEN <<>>
    ELSE IF s[k] = 10 /\ k > 1 /\ s[k - 1] = 10
        THEN CollapseNewlinesFrom(s, k + 1)
    ELSE <<s[k]>> \o CollapseNewlinesFrom(s, k + 1)

CollapseNewlines(s) == CollapseNewlinesFrom(s, 1)

\* str.strip()
RECURSIVE LastNonSpace(_, _)
LastNonSpace(s, k) ==
    IF k = 0 \/ ~IsSpace(s[k]) THEN k ELSE LastNonSpace(s, k - 1)

strip(s) == Slice(s, SkipSpace(s, 1), LastNonSpace(s, Len(s)))

(***************************************************************************)
(* html.unescape, as extract_text_from_html uses it.                       *)
(***************************************************************************)
\* The named character references the model's inputs can hold, without the
\* trailing ";": lt gt amp quot nbsp (each is in html.entities.html5 with and
\* without the ";").
EntityTable ==
    { <<<<108, 116>>, 60>>, <<<<103, 116>>, 62>>, <<<<97, 109, 112>>, 38>>,
      <<<<113, 117, 111, 116>>, 34>>, <<<<110, 98, 115, 112>>, 160>> }

InHtml5(name) ==
    \E e \in EntityTable : name = e[1] \/ name = e[1] \o <<59>>

Html5(name) ==
    LET e == CHOOSE x \in EntityTable : name = x[1] \/ name = x[1] \o <<59>>
    IN  <<e[2]>>

\* Characters of the class [^\t\n\f <&#;].
IsNameChar(c) == c \notin {9, 10, 12, 32, 60, 38, 35, 59}

IsDigit(c) == c \in 48..57

RECURSIVE SkipNameChars(_, _, _)
SkipNameChars(s, k, left) ==
    IF k > Len(s) \/ left = 0 \/ ~IsNameChar(s[k]) THEN k
    ELSE SkipNameChars(s, k + 1, left - 1)

RECURSIVE SkipDigits(_, _)
SkipDigits(s, k) ==
    IF k > Len(s) \/ ~IsDigit(s[k]) THEN k ELSE SkipDigits(s, k + 1)

\* int(digits)
RECURSIVE DecimalValue(_, _)
DecimalValue(digits, acc) ==
    IF digits = <<>> THEN acc
    ELSE DecimalValue(Tail(digits), acc * 10 + (Head(digits) - 48))

\* The longest proper prefix name[:x], x from len-1 down to 2, that is in the
\* table; 0 when there is none.
RECURSIVE LongestEntityPrefix(_, _)
LongestEntityPrefix(name, x) ==
    IF x < 2 THEN 0
    ELSE IF InHtml5(SubSeq(name, 1, x)) THEN x
    ELSE LongestEntityPrefix(name, x - 1)

\* _replace_charref for a named reference (the text after the "&").
ReplaceNamed(name) ==
    IF InHtml5(name) THEN Html5(name)
    ELSE LET x == LongestEntityPrefix(name, Len(name) - 1)
         IN  IF x > 0
             THEN Html5(SubSeq(name, 1, x)) \o Slice(name, x + 1, Len(name))
             ELSE <<38>> \o name

\* The match of _charref at position k (s[k] = "&"): its length (0 when it
\* does not match) and its replacement.  Decimal and named references; the
\* inputs of the model hold no hexadecimal reference.
CharRefAt(s, k) ==
    IF k + 1 <= Len(s) /\ s[k + 1] = 35
    THEN LET d == SkipDigits(s, k + 2)
             e == IF d <= Len(s) /\ s[d] = 59 THEN d + 1 ELSE d
         IN  IF d = k + 2 THEN [len |-> 0, text |-> <<>>]
             ELSE [len |-> e - k,
                   text |-> <<DecimalValue(SubSeq(s, k + 2, d - 1), 0)>>]
    ELSE LET d == SkipNameChars(s, k + 1, 32)
             e == IF d <= Len(s) /\ s[d] = 59 THEN d + 1 ELSE d
         IN  IF d = k + 1 THEN [len |-> 0, text |-> <<>>]
             ELSE [len |-> e - k, text |-> ReplaceNamed(SubSeq(s, k + 1, e - 1))]

RECURSIVE UnescapeFrom(_, _)
UnescapeFrom(s, k) ==
    IF k > Len(s) THEN <<>>
    ELSE IF s[k] = 38 /\ CharRefAt(s, k).len > 0
        THEN CharRefAt(s, k).text \o UnescapeFrom(s, k + CharRefAt(s, k).len)
    ELSE <<s[k]>> \o UnescapeFrom(s, k + 1)

unescape(s) == UnescapeFrom(s, 1)

(***************************************************************************)
(* utils/email_parser.py: extract_text_from_html                           *)
(***************************************************************************)
\* Mutant of extract_text_from_html: the entities are decoded before the tags
\* are rewritten and stripped.
extract_text_from_html_unescape_first(html) ==
    IF html = <<>> THEN <<>>
    ELSE LET s1 == StripBlocks(html, ScriptOpen, ScriptClose)
             s2 == StripBlocks(s1, StyleOpen, StyleClose)
             s3 == StripBlocks(s2, HeadOpen, HeadClose)
             s4 == unescape(s3)
             s5 == BreaksToNewlines(s4)
             s6 == StripTags(s5)
             s7 == CollapseWhitespace(s6)
             s8 == CollapseNewlines(s7)
         IN  strip(s8)

extract_text_from_html(html) ==
    IF html = <<>> THEN <<>>
    ELSE LET s1 == StripBlocks(html, ScriptOpen, ScriptClose)
             s2 == StripBlocks(s1, StyleOpen, StyleClose)
             s3 == StripBlocks(s2, HeadOpen, HeadClose)
             s4 == BreaksToNewlines(s3)
             s5 == StripTags(s4)
             s6 == unescape(s5)
             s7 == CollapseWhitespace(s6)
             s8 == CollapseNewlines(s7)
         IN  strip(s8)

(***************************************************************************)
(* utils/email_parser.py: decode_payload                                   *)
(***************************************************************************)
\* The 6-bit value of a base64 character after the urlsafe translation
\* ("-" to "+", "_" to "/"); -1 for a character outside the alphabet.
B64Value(c) ==
    IF c \in 65..90 THEN c - 65
    ELSE IF c \in 97..122 THEN c - 71
    ELSE IF c \in 48..57 THEN c + 4
    ELSE IF c \in {43, 45} THEN 62
    ELSE IF c \in {47, 95} THEN 63
    ELSE -1

\* binascii.a2b_base64 in its default, non-strict mode, from position k with
\* the decoder's registers: characters outside the alphabet are skipped, a
\* completed pad sequence ends the decoding, and data that stops inside a quad
\* is an error (binascii.Error).
RECURSIVE A2bBase64From(_, _, _, _, _, _)
A2bBase64From(data, k, quad_pos, leftchar, pads, out) ==
    IF k > Len(data)
    THEN [error |-> quad_pos # 0, bytes |-> out]
    ELSE LET c == data[k]
             v == B64Value(c)
         IN  IF c = 61
             THEN IF quad_pos >= 2 /\ quad_pos + pads + 1 >= 4
                  THEN [error |-> FALSE, bytes |-> out]
                  ELSE A2bBase64From(data, k + 1, quad_pos, leftchar,
                                     IF quad_pos >= 2 THEN pads + 1 ELSE pads, out)
             ELSE IF v = -1
             THEN A2bBase64From(data, k + 1, quad_pos, leftchar, pads, out)
             ELSE IF quad_pos = 0
             THEN A2bBase64From(data, k + 1, 1, v, 0, out)
             ELSE IF quad_pos = 1
             THEN A2bBase64From(data, k + 1, 2, v % 16, 0,
                                Append(out, leftchar * 4 + v \div 16))
             ELSE IF quad_pos = 2
             THEN A2bBase64From(data, k + 1, 3, v % 4, 0,
                                Append(out, leftchar * 16 + v \div 4))
             ELSE A2bBase64From(data, k + 1, 0, 0, 0,
                                Append(out, leftchar * 64 + v))

\* base64.urlsafe_b64decode(data) for a str: non-ASCII text is a ValueError.
urlsafe_b64decode(data) ==
    IF \E k \in 1..Len(data) : data[k] > 127
    THEN [error |-> TRUE, bytes |-> <<>>]
    ELSE A2bBase64From(data, 1, 0, 0, 0, <<>>)

IsCont(b) == b \in 128..191

\* bytes.decode('utf-8') from position k: the decoded code points, or an
\* error (UnicodeDecodeError) on an invalid or truncated sequence.
RECURSIVE Utf8DecodeFrom(_, _, _)
Utf8DecodeFrom(b, k, out) ==
    LET n == Len(b) - k + 1
        bad == [error |-> TRUE, text |-> <<>>]
    IN  IF k > Len(b) THEN [error |-> FALSE, text |-> out]
        ELSE IF b[k] < 128
            THEN Utf8DecodeFrom(b, k + 1, Append(out, b[k]))
        ELSE IF b[k] \in 194..223
            THEN IF n >= 2 /\ IsCont(b[k + 1])
                 THEN Utf8DecodeFrom(b, k + 2,
                        Append(out, (b[k] - 192) * 64 + (b[k + 1] - 128)))
                 ELSE bad
        ELSE IF b[k] \in 224..239
            THEN IF /\ n >= 3
                    /\ IsCont(b[k + 1])
                    /\ IsCont(b[k + 2])
                    /\ b[k] = 224 => b[k + 1] >= 160
                    /\ b[k] = 237 => b[k + 1] <= 159
                 THEN Utf8DecodeFrom(b, k + 3,
                        Append(out, (b[k] - 224) * 4096 + (b[k + 1] - 128) * 64
                                        + (b[k + 2] - 128)))
                 ELSE bad
        ELSE IF b[k] \in 240..244
            THEN IF /\ n >= 4
                    /\ IsCont(b[k + 1])
                    /\ IsCont(b[k + 2])
                    /\ IsCont(b[k + 3])
                    /\ b[k] = 240 => b[k + 1] >= 144
                    /\ b[k] = 244 => b[k + 1] <= 143
                 THEN Utf8DecodeFrom(b, k + 4,
                        Append(out, (b[k] - 240) * 262144 + (b[k + 1] - 128) * 4096
                                        + (b[k + 2] - 128) * 64 + (b[k + 3] - 128)))
                 ELSE bad
        ELSE bad

\* The loop over ['utf-8', 'latin-1', 'ascii']: latin-1 decodes every byte
\* string (each byte is its own code point), so the loop always returns in
\* its first or second round.
decode_bytes(body_bytes) ==
    IF ~Utf8DecodeFrom(body_bytes, 1, <<>>).error
    THEN Utf8DecodeFrom(body_bytes, 1, <<>>).text
    ELSE body_bytes

\* Mutant of decode_payload: data that stops inside a quad is decoded as far
\* as it goes instead of giving the empty string.
decode_payload_partial(data) ==
    decode_bytes(urlsafe_b64decode(data).bytes)

\* decode_payload: any exception of the decoding gives the empty string.
decode_payload(data) ==
    IF urlsafe_b64decode(data).error THEN <<>>
    ELSE decode_bytes(urlsafe_b64decode(data).bytes)

(***************************************************************************)
(* utils/email_parser.py: extract_body_content and parse_email_content.    *)
(*                                                                         *)
(* A Part is a record [mimeType, body, parts]: mimeType is the text of     *)
(* payload.get('mimeType', '') (so '' when the key is absent), body is     *)
(* <<data>> when 'body' and 'data' are both present and <<>> otherwise,    *)
(* parts is the list payload['parts'] (<<>> when the key is absent).       *)
(***************************************************************************)
TextHtml  == <<116, 101, 120, 116, 47, 104, 116, 109, 108>>
TextPlain == <<116, 101, 120, 116, 47, 112, 108, 97, 105, 110>>

RECURSIVE extract_body_content(_, _, _)
RECURSIVE extract_parts(_, _, _, _)

\* The loop `for part in payload['parts']` from the k-th part on: the call is
\* given the running accumulators and what it returns is appended to them.
extract_parts(parts, k, html_acc, text_acc) ==
    IF k > Len(parts) THEN <<html_acc, text_acc>>
    ELSE LET r == extract_body_content(parts[k], html_acc, text_acc)
         IN  extract_parts(parts, k + 1, html_acc \o r[1], text_acc \o r[2])

\* Mutant of extract_body_content: every payload that is not html is appended
\* to the text accumulator, whatever its mime type.
extract_body_content_any_mime(payload, html_acc, text_acc) ==
    LET has     == payload.body # <<>>
        content == decode_payload(payload.body[1])
        is_html == has /\ Contains(payload.mimeType, TextHtml)
        is_text == has /\ ~is_html
    IN  extract_parts(payload.parts, 1,
                      IF is_html THEN html_acc \o content ELSE html_acc,
                      IF is_text THEN text_acc \o content ELSE text_acc)

\* extract_body_content(payload, body_html, body_text): <<html, text>>.
extract_body_content(payload, html_acc, text_acc) ==
    LET has     == payload.body # <<>>
        content == decode_payload(payload.body[1])
        is_html == has /\ Contains(payload.mimeType, TextHtml)
        is_text == has /\ ~is_html /\ Contains(payload.mimeType, TextPlain)
    IN  extract_parts(payload.parts, 1,
                      IF is_html THEN html_acc \o content ELSE html_acc,
                      IF is_text THEN text_acc \o content ELSE text_acc)

\* The header dict built by `headers[header['name'].lower()] = header['value']`
\* over the first k headers, as a function from the lower-cased names.
RECURSIVE HeaderDict(_, _)
HeaderDict(hs, k) ==
    IF k = 0 THEN <<>>
    ELSE LET d   == HeaderDict(hs, k - 1)
             key == lower(hs[k].name)
         IN  [x \in (DOMAIN d) \cup {key} |->
                    IF x = key THEN hs[k].value ELSE d[x]]

\* dict.get(key, default)
Get(d, key, default) == IF key \in DOMAIN d THEN d[key] ELSE default

KeySubject == <<115, 117, 98, 106, 101, 99, 116>>
KeyFrom    == <<102, 114, 111, 109>>
KeyDate    == <<100, 97, 116, 101>>
NoSubject  == <<40, 78, 111, 32, 83, 117, 98, 106, 101, 99, 116, 41>>
NoSender   == <<40, 78, 111, 32, 83, 101, 110, 100, 101, 114, 41>>
NoDate     == <<40, 78, 111, 32, 68, 97, 116, 101, 41>>

\* Mutant of choose_body: the HTML text is preferred when there is any.
choose_body_html_first(html_acc, text_acc) ==
    IF html_acc # <<>> THEN extract_text_from_html(html_acc) ELSE text_acc

\* `if body_text: body = body_text else: body = extract_text_from_html(body_html)`
choose_body(html_acc, text_acc) ==
    IF text_acc # <<>> THEN text_acc ELSE extract_text_from_html(html_acc)

\* Mutant of clean_whitespace: runs are collapsed, the ends are not stripped.
clean_whitespace_no_strip(body) == CollapseWhitespace(body)

\* body = re.sub(r'\s+', ' ', body).strip()
clean_whitespace(body) == strip(CollapseWhitespace(body))

\* Mutant of header_fields: the first header of a name wins, not the last.
RECURSIVE FirstHeaderDict(_, _)
FirstHeaderDict(hs, k) ==
    IF k = 0 THEN <<>>
    ELSE LET d   == FirstHeaderDict(hs, k - 1)
             key == lower(hs[k].name)
         IN  [x \in (DOMAIN d) \cup {key} |->
                    IF x \in DOMAIN d THEN d[x] ELSE hs[k].value]

header_fields_first_wins(hs) ==
    LET d == FirstHeaderDict(hs, Len(hs))
    IN  [subject |-> Get(d, KeySubject, NoSubject),
         sender  |-> Get(d, KeyFrom, NoSender),
         date    |-> Get(d, KeyDate, NoDate)]

\* Mutant of header_fields: a missing From header takes the subject's
\* placeholder.
header_fields_wrong_default(hs) ==
    LET d == HeaderDict(hs, Len(hs))
    IN  [subject |-> Get(d, KeySubject, NoSubject),
         sender  |-> Get(d, KeyFrom, NoSubject),
         date    |-> Get(d, KeyDate, NoDate)]

\* Lines 21-28: the header dict and the three lookups with their defaults.
header_fields(hs) ==
    LET d == HeaderDict(hs, Len(hs))
    IN  [subject |-> Get(d, KeySubject, NoSubject),
         sender  |-> Get(d, KeyFrom, NoSender),
         date    |-> Get(d, KeyDate, NoDate)]

\* parse_email_content(message); labelIds and snippet hold the values of
\* message.get('labelIds', []) and message.get('snippet', '').
parse_email_content(msg) ==
    LET h   == header_fields(msg.payload.headers)
        acc == extract_body_content(msg.payload, <<>>, <<>>)
    IN  [id      |-> msg.id,
         subject |-> h.subject,
         sender  |-> h.sender,
         date    |-> h.date,
         body    |-> clean_whitespace(choose_body(acc[1], acc[2])),
         labels  |-> msg.labelIds,
         snippet |-> msg.snippet]

(***************************************************************************)
(* Specification SpecResponse: the response parser applied to every        *)
(* response text made of at most MaxFragments fragments.                   *)
(***************************************************************************)
RECURSIVE Flatten(_)
Flatten(ss) == IF ss = <<>> THEN <<>> ELSE Head(ss) \o Flatten(Tail(ss))

SeqsUpTo(S, n) == UNION {[1..k -> S] : k \in 0..n}

\* "YES" "NO" "Yes" "no" "N" "S" "x" "," " " "\n"
ResponseFragments ==
    { YES, NO, <<89, 101, 115>>, <<110, 111>>, <<78>>, <<83>>,
      <<120>>, <<44>>, <<32>>, <<10>> }

Responses(n) == {Flatten(fs) : fs \in SeqsUpTo(ResponseFragments, n)}

InitResponse ==
    /\ pc = "response"
    /\ response_text \in Responses(MaxFragments)
    /\ is_necessary = TRUE
    /\ html_content = <<>> /\ html_text = <<>>
    /\ message = <<>> /\ email_data = <<>>
    /\ body_html = <<>> /\ body_text = <<>>
    /\ MainNotStarted

ParseNecessityResponse ==
    /\ pc = "response"
    /\ is_necessary' = parse_necessity_response(response_text)
    /\ pc' = "parsed"
    /\ UNCHANGED <<response_text, htmlVars, parserVars, mainVars>>

NextResponse == ParseNecessityResponse

SpecResponse == InitResponse /\ [][NextResponse]_vars

(***************************************************************************)
(* Claims about the response parser.                                       *)
(***************************************************************************)
\* tok is the first whitespace-delimited token of text.
IsFirstToken(text, tok) ==
    \E a, b \in 1..Len(text) :
        /\ a <= b
        /\ \A k \in 1..(a - 1) : IsSpace(text[k])
        /\ \A k \in a..b : ~IsSpace(text[k])
        /\ b = Len(text) \/ IsSpace(text[b + 1])
        /\ tok = SubSeq(text, a, b)

SameIgnoringCase(s, t) == lower(s) = lower(t)

IsLetter(c) == c \in 65..90 \/ c \in 97..122

\* The word w (a maximal run of letters, case ignored) occurs in line.
HasWord(line, w) ==
    \E a, b \in 1..Len(line) :
        /\ a <= b
        /\ SameIgnoringCase(SubSeq(line, a, b), w)
        /\ a = 1 \/ ~IsLetter(line[a - 1])
        /\ b = Len(line) \/ ~IsLetter(line[b + 1])

\* The first whitespace-delimited token of text, as a set (empty when text is
\* empty or all whitespace).
FirstTokens(text) ==
    {tok \in {Slice(text, a, b) : a \in 1..Len(text), b \in 1..Len(text)} :
        IsFirstToken(text, tok)}

\* C3: a response whose first token is neither YES nor NO and whose first line
\* holds no YES token and no NO token is parsed as necessary; the parser never
\* answers "unnecessary" without an unambiguous YES/NO token.
C3_AmbiguousIsNecessary ==
    pc = "parsed" =>
        LET line == FirstLineOf(response_text)
        IN  ( /\ \A tok \in FirstTokens(response_text) :
                    ~SameIgnoringCase(tok, YES) /\ ~SameIgnoringCase(tok, NO)
              /\ ~HasWord(line, YES)
              /\ ~HasWord(line, NO) )
            => is_necessary = TRUE

\* C4: the empty response is necessary; a first token YES (any case) gives
\* necessary and a first token NO (any case) gives unnecessary, whatever follows.
C4_FirstTokenDecides ==
    pc = "parsed" =>
        /\ response_text = <<>> => is_necessary = TRUE
        /\ \A tok \in FirstTokens(response_text) :
                /\ SameIgnoringCase(tok, YES) => is_necessary = TRUE
                /\ SameIgnoringCase(tok, NO) => is_necessary = FALSE

\* C4 witness: a response whose first token is "no" and whose later text holds
\* YES was parsed as unnecessary.
C4_Witness ==
    /\ pc = "parsed"
    /\ IsFirstToken(response_text, <<110, 111>>)
    /\ Contains(upper(response_text), YES)
    /\ is_necessary = FALSE

(***************************************************************************)
(* Specification SpecHtml: extract_text_from_html applied to every HTML    *)
(* text made of at most MaxHtmlFragments fragments, and to the spec's      *)
(* round-trip example.                                                     *)
(***************************************************************************)
HtmlFragments ==
    {
      <<60, 112, 62>>,  \* <p>
      <<60, 47, 112, 62>>,  \* </p>
      <<60, 98, 114, 47, 62>>,  \* <br/>
      <<60, 98, 114, 32, 47, 62>>,  \* <br />
      <<60, 115, 99, 114, 105, 112, 116, 62>>,  \* <script>
      <<60, 47, 115, 99, 114, 105, 112, 116, 62>>,  \* </script>
      <<60, 83, 67, 82, 73, 80, 84, 62>>,  \* <SCRIPT>
      <<60, 47, 83, 67, 82, 73, 80, 84, 62>>,  \* </SCRIPT>
      <<60, 115, 116, 121, 108, 101, 62>>,  \* <style>
      <<60, 47, 115, 116, 121, 108, 101, 62>>,  \* </style>
      <<60, 104, 101, 97, 100, 62>>,  \* <head>
      <<60, 47, 104, 101, 97, 100, 62>>,  \* </head>
      <<120>>,  \* x
      <<97, 10, 98>>,  \* a\nb
      <<32>>,  \*  
      <<38, 108, 116, 59>>,  \* &lt;
      <<98>>,  \* b
      <<38, 103, 116, 59>>,  \* &gt;
      <<38, 97, 109, 112, 59>>  \* &amp;
    }

\* <p>Hello</p><br/><p>World</p>
HelloWorldHtml ==
    <<60, 112, 62, 72, 101, 108, 108, 111, 60, 47, 112, 62,
    60, 98, 114, 47, 62, 60, 112, 62,
    87, 111, 114, 108, 100, 60, 47, 112, 62>>

HtmlInputs(n) ==
    {Flatten(fs) : fs \in SeqsUpTo(HtmlFragments, n)}
        \cup {HelloWorldHtml}

InitHtml ==
    /\ pc = "html"
    /\ html_content \in HtmlInputs(MaxHtmlFragments)
    /\ html_text = <<>>
    /\ response_text = <<>> /\ is_necessary = TRUE
    /\ message = <<>> /\ email_data = <<>>
    /\ body_html = <<>> /\ body_text = <<>>
    /\ MainNotStarted

ExtractTextFromHtml ==
    /\ pc = "html"
    /\ html_text' = extract_text_from_html(html_content)
    /\ pc' = "reduced"
    /\ UNCHANGED <<html_content, responseVars, parserVars, mainVars>>

NextHtml == ExtractTextFromHtml

SpecHtml == InitHtml /\ [][NextHtml]_vars

(***************************************************************************)
(* Claims about extract_text_from_html.                                    *)
(***************************************************************************)
\* "Hello\nWorld"
HelloNewlineWorld == <<72, 101, 108, 108, 111, 10, 87, 111, 114, 108, 100>>

\* The line-break tags of the claim: <br> <br/> <br /> </p>
LineBreakTags == { <<60, 98, 114, 62>>, <<60, 98, 114, 47, 62>>, <<60, 98, 114, 32, 47, 62>>, <<60, 47, 112, 62>> }

IsWord(s) == s # <<>> /\ \A k \in 1..Len(s) : IsLetter(s[k])

\* C6: the reduction keeps the line breaks it inserts for <br>, <br/>, <br />
\* and </p>: a word, a line-break tag, a word reduce to the two words
\* separated by one newline, and <p>Hello</p><br/><p>World</p> reduces to
\* "Hello\nWorld".
C6_KeepsLineBreaks ==
    pc = "reduced" =>
        /\ html_content = HelloWorldHtml => html_text = HelloNewlineWorld
        /\ \A a \in 1..Len(html_content), b \in 1..Len(html_content) :
              ( /\ a < b
                /\ Slice(html_content, a + 1, b - 1) \in LineBreakTags
                /\ IsWord(Slice(html_content, 1, a))
                /\ IsWord(Slice(html_content, b, Len(html_content))) )
              => html_text = Slice(html_content, 1, a) \o <<10>>
                                \o Slice(html_content, b, Len(html_content))

\* The block tags of the claim, lower-cased: <script> </script>, <style>
\* </style>, <head> </head>.
BlockTags ==
    { <<ScriptOpen \o <<62>>, ScriptClose>>, <<StyleOpen \o <<62>>, StyleClose>>,
      <<HeadOpen \o <<62>>, HeadClose>> }

\* Position p of h lies between an opening block tag and the closing tag that
\* follows it, the tag names compared whatever their letter case.
InsideBlock(h, p) ==
    \E t \in BlockTags :
        \E a \in 1..Len(h) :
            LET b == Find(lower(h), t[2], a + Len(t[1]))
            IN  /\ Find(lower(h), t[1], a) = a
                /\ a + Len(t[1]) <= p
                /\ b # 0
                /\ p < b

\* C7: script, style and head blocks are removed whatever the letter case of
\* the tag names and across lines: a non-blank character all of whose
\* occurrences lie inside such blocks does not occur in the reduced text.
C7_BlocksRemoved ==
    pc = "reduced" =>
        \A c \in {html_content[k] : k \in 1..Len(html_content)} :
            ( /\ ~IsSpace(c)
              /\ \A p \in 1..Len(html_content) :
                    html_content[p] = c => InsideBlock(html_content, p) )
            => ~\E k \in 1..Len(html_text) : html_text[k] = c

\* "&lt;b&gt;" and "<b>"
EscapedBoldTag == <<38, 108, 116, 59, 98, 38, 103, 116, 59>>
BoldTag == <<60, 98, 62>>

\* pat occurs in h at position p.
OccursAt(h, p, pat) ==
    /\ p + Len(pat) - 1 <= Len(h)
    /\ SubSeq(h, p, p + Len(pat) - 1) = pat

\* Text without markup: no '<', no '>', no '&'.
IsPlainText(s) == \A k \in 1..Len(s) : s[k] \notin {60, 62, 38}

\* The opening and closing tags of the blocks the code strips.
StrippedBlockTags ==
    { <<ScriptOpen \o <<62>>, ScriptClose>>, <<StyleOpen \o <<62>>, StyleClose>>,
      <<HeadOpen \o <<62>>, HeadClose>> }

\* Before position p, h has no opening of a stripped block and no '<' that is
\* not closed by a '>': p is in no block and in no tag.
OutsideMarkup(h, p) ==
    /\ \A open \in {ScriptOpen, StyleOpen, HeadOpen} :
          Find(h, open, 1) = 0 \/ Find(h, open, 1) >= p
    /\ \A a \in 1..(p - 1) :
          h[a] = 60 => \E c \in (a + 1)..(p - 1) : h[c] = 62

\* C18: the tags are stripped before the entities are decoded, and the blocks
\* before both: "&lt;b&gt;" outside of blocks and tags comes out as the
\* literal "<b>" (between plain text, the reduced text is the text with "<b>"
\* in its place), and plain text around a script, style or head block whose
\* content has entities but no tag reduces to the text alone, nothing of the
\* block's content being decoded into it.
C18_TagsBeforeEntities ==
    pc = "reduced" =>
        \A p \in 1..Len(html_content) :
            /\ ( /\ OccursAt(html_content, p, EscapedBoldTag)
                 /\ OutsideMarkup(html_content, p) )
               => Contains(html_text, BoldTag)
            /\ ( /\ OccursAt(html_content, p, EscapedBoldTag)
                 /\ IsPlainText(Slice(html_content, 1, p - 1))
                 /\ IsPlainText(Slice(html_content, p + 9, Len(html_content))) )
               => html_text
                    = clean_whitespace(Slice(html_content, 1, p - 1) \o BoldTag
                         \o Slice(html_content, p + 9, Len(html_content)))
            /\ \A t \in StrippedBlockTags :
                 LET q == Find(html_content, t[2], p + Len(t[1]))
                     inner == Slice(html_content, p + Len(t[1]), q - 1)
                     pre   == Slice(html_content, 1, p - 1)
                     post  == Slice(html_content, q + Len(t[2]),
                                    Len(html_content))
                 IN  ( /\ OccursAt(html_content, p, t[1])
                       /\ q # 0
                       /\ \A k \in 1..Len(inner) : inner[k] # 60
                       /\ IsPlainText(pre)
                       /\ IsPlainText(post) )
                     => html_text = clean_whitespace(pre \o <<32>> \o post)

\* C18 witness: "&lt;b&gt;" was reduced to "<b>".
C18_Witness ==
    /\ pc = "reduced"
    /\ html_content = EscapedBoldTag
    /\ html_text = BoldTag

(***************************************************************************)
(* Specifications SpecParser and SpecHeaders: parse_email_content applied  *)
(* to the messages whose Part tree has at most MaxNodes parts, and to the  *)
(* messages with at most MaxHeaders headers.                               *)
(***************************************************************************)
Multipart == <<109, 117, 108, 116, 105, 112, 97, 114, 116, 47, 109, 105, 120, 101, 100>>
ImagePng  == <<105, 109, 97, 103, 101, 47, 112, 110, 103>>

\* base64url payloads: "A", " B\n", "<b>h", and "QQ=", which stops inside a
\* quad (incorrect padding); "<br>".
DataA         == <<81, 81, 61, 61>>
DataB         == <<73, 69, 73, 75>>
DataHtml      == <<80, 71, 73, 45, 97, 65, 61, 61>>
DataMalformed == <<81, 81, 61>>
DataHtmlBreak == <<80, 71, 74, 121, 80, 103, 61, 61>>

\* What one Part can carry: no payload (a container), plain text, HTML, a
\* malformed plain-text payload, an attachment of another type, an HTML line
\* break, a payload without a mimeType.
PartPayloads ==
    { [mimeType |-> Multipart, body |-> <<>>],
      [mimeType |-> TextPlain, body |-> <<DataA>>],
      [mimeType |-> TextPlain, body |-> <<DataB>>],
      [mimeType |-> TextHtml,  body |-> <<DataHtml>>],
      [mimeType |-> TextPlain, body |-> <<DataMalformed>>],
      [mimeType |-> ImagePng,  body |-> <<DataA>>],
      [mimeType |-> TextHtml,  body |-> <<DataHtmlBreak>>],
      [mimeType |-> <<>>,      body |-> <<DataA>>] }

\* The Part trees with exactly n parts, and the lists of trees with k parts
\* in all.
RECURSIVE TreesOfSize(_)
RECURSIVE ForestsOfSize(_)

TreesOfSize(n) ==
    { [mimeType |-> o.mimeType, body |-> o.body, parts |-> f] :
        o \in PartPayloads, f \in ForestsOfSize(n - 1) }

ForestsOfSize(k) ==
    IF k = 0 THEN {<<>>}
    ELSE UNION { {<<tr>> \o f : tr \in TreesOfSize(j), f \in ForestsOfSize(k - j)} :
                    j \in 1..k }

PartTrees(m) == UNION {TreesOfSize(n) : n \in 1..m}

\* Header names "From" "from" "Subject" "SUBJECT" "Date" "To"; values "a" "b".
HeaderNames ==
    { <<70, 114, 111, 109>>, <<102, 114, 111, 109>>,
      <<83, 117, 98, 106, 101, 99, 116>>, <<83, 85, 66, 74, 69, 67, 84>>,
      <<68, 97, 116, 101>>, <<84, 111>> }

HeaderValues == { <<97>>, <<98>> }

Headers == [name : HeaderNames, value : HeaderValues]

\* "m1", "INBOX", "hi"
MessageId == <<109, 49>>
Inbox     == <<73, 78, 66, 79, 88>>
Snippet   == <<104, 105>>

Message(tree, hs, labels) ==
    [id       |-> MessageId,
     payload  |-> [headers |-> hs, mimeType |-> tree.mimeType,
                   body |-> tree.body, parts |-> tree.parts],
     labelIds |-> labels,
     snippet  |-> Snippet]

\* Every tree, under one header list.
TreeMessages(m) ==
    { Message(tree, <<[name |-> KeyFrom, value |-> <<97>>]>>, <<Inbox>>) :
        tree \in PartTrees(m) }

\* A message with the header list hs, over one tree.
HeaderMessage(hs) ==
    Message([mimeType |-> TextPlain, body |-> <<DataA>>, parts |-> <<>>],
            hs, <<Inbox>>)

InitParser ==
    /\ pc = "message"
    /\ message \in TreeMessages(MaxNodes)
    /\ body_html = <<>> /\ body_text = <<>>
    /\ email_data = <<>>
    /\ response_text = <<>> /\ is_necessary = TRUE
    /\ html_content = <<>> /\ html_text = <<>>
    /\ MainNotStarted

InitHeaders ==
    /\ pc = "message"
    /\ \E k \in 0..MaxHeaders :
          \E hs \in [1..k -> Headers] : message = HeaderMessage(hs)
    /\ body_html = <<>> /\ body_text = <<>>
    /\ email_data = <<>>
    /\ response_text = <<>> /\ is_necessary = TRUE
    /\ html_content = <<>> /\ html_text = <<>>
    /\ MainNotStarted

ParseEmailContent ==
    /\ pc = "message"
    /\ body_html' = extract_body_content(message.payload, <<>>, <<>>)[1]
    /\ body_text' = extract_body_content(message.payload, <<>>, <<>>)[2]
    /\ email_data' = parse_email_content(message)
    /\ pc' = "parsed"
    /\ UNCHANGED <<message, responseVars, htmlVars, mainVars>>

NextParser == ParseEmailContent

SpecParser == InitParser /\ [][NextParser]_vars

SpecHeaders == InitHeaders /\ [][NextParser]_vars

(***************************************************************************)
(* Claims about the body traversal and the choice of the body.             *)
(***************************************************************************)
HasPayload(part) == part.body # <<>>

IsPlainPart(part) == HasPayload(part) /\ part.mimeType = TextPlain

IsHtmlPart(part) == HasPayload(part) /\ part.mimeType = TextHtml

\* The parts of a tree, the root included.
RECURSIVE PartsOf(_)
PartsOf(part) ==
    {part} \cup UNION {PartsOf(part.parts[k]) : k \in 1..Len(part.parts)}

\* The decoded payloads of the parts of the given mime type, concatenated in
\* depth-first pre-order: the part itself, then its children in list order.
RECURSIVE PreOrder(_, _)
RECURSIVE PreOrderList(_, _, _)
PreOrderList(parts, k, mime) ==
    IF k > Len(parts) THEN <<>>
    ELSE PreOrder(parts[k], mime) \o PreOrderList(parts, k + 1, mime)

PreOrder(part, mime) ==
    (IF HasPayload(part) /\ part.mimeType = mime
        THEN decode_payload(part.body[1]) ELSE <<>>)
        \o PreOrderList(part.parts, 1, mime)

\* C1: the text accumulator is the pre-order concatenation of the decoded
\* text/plain payloads and the html accumulator that of the text/html payloads,
\* each part contributing exactly once and with no separator; the body of a
\* tree without html is that concatenation whitespace-collapsed.
C1_PreOrderConcatenation ==
    pc = "parsed" =>
        /\ body_text = PreOrder(message.payload, TextPlain)
        /\ body_html = PreOrder(message.payload, TextHtml)
        /\ (\A part \in PartsOf(message.payload) : ~IsHtmlPart(part))
              => email_data.body
                    = clean_whitespace(PreOrder(message.payload, TextPlain))

\* The tree with the payload of every part that is in the set drop removed.
RECURSIVE Without(_, _)
Without(part, drop) ==
    [mimeType |-> part.mimeType,
     body     |-> IF part \in drop THEN <<>> ELSE part.body,
     parts    |-> [k \in 1..Len(part.parts) |-> Without(part.parts[k], drop)]]

HtmlParts(tree) == {part \in PartsOf(tree) : IsHtmlPart(part)}

WithoutHtml(msg) ==
    LET tree == Without(msg.payload, HtmlParts(msg.payload))
    IN  [msg EXCEPT !.payload.body = tree.body, !.payload.parts = tree.parts]

HasNonEmptyPlain(tree) ==
    \E part \in PartsOf(tree) :
        IsPlainPart(part) /\ decode_payload(part.body[1]) # <<>>

\* C5: when some text/plain payload decodes to a non-empty string the body is
\* derived from the text accumulator alone (it is the body of the same message
\* with every html payload removed, wherever the html parts stand); the reduced
\* html accumulator is the body only when the text accumulator is empty.
C5_PlainTextWins ==
    pc = "parsed" =>
        /\ HasNonEmptyPlain(message.payload) =>
              /\ body_text # <<>>
              /\ email_data.body = clean_whitespace(body_text)
              /\ email_data.body
                    = parse_email_content(WithoutHtml(message)).body
        /\ body_text = <<>> =>
              email_data.body = clean_whitespace(extract_text_from_html(body_html))

\* C5 witness: a tree whose first child is an html part and whose last child
\* is a plain part was parsed, and the body is the plain text.
C5_Witness ==
    /\ pc = "parsed"
    /\ Len(message.payload.parts) >= 2
    /\ IsHtmlPart(message.payload.parts[1])
    /\ IsPlainPart(message.payload.parts[Len(message.payload.parts)])
    /\ body_html # <<>>
    /\ email_data.body = <<65>>

Malformed(part) == HasPayload(part) /\ urlsafe_b64decode(part.body[1]).error

MalformedParts(tree) == {part \in PartsOf(tree) : Malformed(part)}

\* C8: a malformed base64 payload decodes to the empty string, its part adds
\* nothing to either accumulator (the accumulators are those of the tree
\* without the malformed payloads), and every well-formed payload of the
\* tree, the children and later siblings of a malformed part included, is
\* still accumulated.
C8_MalformedPayloadSkipped ==
    pc = "parsed" =>
        /\ \A part \in PartsOf(message.payload) :
              Malformed(part) => decode_payload(part.body[1]) = <<>>
        /\ <<body_html, body_text>>
              = extract_body_content(Without(message.payload,
                                             MalformedParts(message.payload)),
                                     <<>>, <<>>)
        /\ \A part \in PartsOf(message.payload) :
              /\ IsPlainPart(part) /\ ~Malformed(part)
                    => Contains(body_text, decode_payload(part.body[1]))
              /\ IsHtmlPart(part) /\ ~Malformed(part)
                    => Contains(body_html, decode_payload(part.body[1]))

\* C8 witness: the first child of the root is malformed, the second child has
\* a plain payload, and that payload was accumulated.
C8_Witness ==
    /\ pc = "parsed"
    /\ Len(message.payload.parts) = 2
    /\ Malformed(message.payload.parts[1])
    /\ message.payload.parts[2].body = <<DataB>>
    /\ message.payload.parts[2].mimeType = TextPlain
    /\ body_text = <<32, 66, 10>>
    /\ email_data.body = <<66>>

\* C11: the body parse_email_content returns is single-line and
\* whitespace-collapsed: its only whitespace characters are spaces, no two
\* spaces are adjacent, and it neither starts nor ends with a space; the
\* newlines the HTML reduction writes for <br> and </p> are not in it.
C11_BodySingleLine ==
    pc = "parsed" =>
        LET b == email_data.body
        IN  /\ \A k \in 1..Len(b) : IsSpace(b[k]) => b[k] = 32
            /\ \A k \in 1..(Len(b) - 1) : ~(b[k] = 32 /\ b[k + 1] = 32)
            /\ b # <<>> => b[1] # 32 /\ b[Len(b)] # 32
            /\ b = clean_whitespace(choose_body(body_html, body_text))

\* C11 witness: an html part "<b>h" is followed by an html part "<br>", the
\* rewrite of the break tags put newlines in the html accumulator, and the
\* body is "h h".
C11_Witness ==
    /\ pc = "parsed"
    /\ body_text = <<>>
    /\ message.payload.body = <<DataHtml>>
    /\ Len(message.payload.parts) = 1
    /\ message.payload.parts[1].body = <<DataHtmlBreak>>
    /\ \E k \in 1..Len(BreaksToNewlines(body_html)) :
          BreaksToNewlines(body_html)[k] = 10
    /\ email_data.body = <<104, 32, 104>>

\* A part with a payload whose mime type names neither text/html nor
\* text/plain (an absent mimeType is the empty text).
OtherPart(part) ==
    /\ HasPayload(part)
    /\ ~Contains(part.mimeType, TextHtml)
    /\ ~Contains(part.mimeType, TextPlain)

OtherParts(tree) == {part \in PartsOf(tree) : OtherPart(part)}

CarriesText(part) == HasPayload(part) /\ ~OtherPart(part)

\* The accumulators a call of extract_body_content can be handed.
SomeAccumulators == { <<>>, <<65>> }

\* C15: the payload of a part of another or of no mime type is appended to
\* neither accumulator (the call returns what it returns for the same part
\* without the payload, and the accumulators of the tree are those of the tree
\* without these payloads); a leaf with such a payload or with no payload
\* returns the accumulators it was handed; a tree without any text/html or
\* text/plain payload has empty accumulators and the empty body.
C15_OtherPartsAddNothing ==
    pc = "parsed" =>
        /\ \A part \in PartsOf(message.payload) :
              \A h \in SomeAccumulators, t \in SomeAccumulators :
                /\ OtherPart(part) =>
                      extract_body_content(part, h, t)
                        = extract_body_content([part EXCEPT !.body = <<>>], h, t)
                /\ ~CarriesText(part) /\ part.parts = <<>> =>
                      extract_body_content(part, h, t) = <<h, t>>
        /\ <<body_html, body_text>>
              = extract_body_content(Without(message.payload,
                                             OtherParts(message.payload)),
                                     <<>>, <<>>)
        /\ (\A part \in PartsOf(message.payload) : ~CarriesText(part)) =>
              /\ body_html = <<>>
              /\ body_text = <<>>
              /\ email_data.body = <<>>

\* C15 witness: a root without payload whose children are a payload without
\* mimeType and an image; both accumulators and the body are empty.
C15_Witness ==
    /\ pc = "parsed"
    /\ message.payload.body = <<>>
    /\ Len(message.payload.parts) = 2
    /\ message.payload.parts[1].mimeType = <<>>
    /\ message.payload.parts[1].body = <<DataA>>
    /\ message.payload.parts[2].mimeType = ImagePng
    /\ message.payload.parts[2].body = <<DataA>>
    /\ body_html = <<>>
    /\ body_text = <<>>
    /\ email_data.body = <<>>

(***************************************************************************)
(* Claims about the header lookup.                                         *)
(***************************************************************************)
\* The three header fields: the canonical name, the field of the result and
\* the placeholder of a missing header.
HeaderFields ==
    { [key |-> KeySubject, field |-> "subject", default |-> NoSubject],
      [key |-> KeyFrom,    field |-> "sender",  default |-> NoSender],
      [key |-> KeyDate,    field |-> "date",    default |-> NoDate] }

Named(h, key) == upper(h.name) = upper(key)

\* C9: header lookup is case-insensitive and the last occurrence wins: each of
\* subject, sender and date is the value of the last header of the list whose
\* name, case ignored, is subject, from and date.
C9_LastHeaderWins ==
    pc = "parsed" =>
        \A f \in HeaderFields :
            \A p \in 1..Len(message.payload.headers) :
                ( /\ Named(message.payload.headers[p], f.key)
                  /\ \A q \in (p + 1)..Len(message.payload.headers) :
                        ~Named(message.payload.headers[q], f.key) )
                => email_data[f.field] = message.payload.headers[p].value

\* C9 witness: the headers [("From", "a"), ("from", "b")] gave the sender "b".
C9_Witness ==
    /\ pc = "parsed"
    /\ message.payload.headers
          = << [name |-> <<70, 114, 111, 109>>, value |-> <<97>>],
               [name |-> KeyFrom, value |-> <<98>>] >>
    /\ email_data.sender = <<98>>

\* The message without the headers of the given name.
WithoutHeader(msg, key) ==
    [msg EXCEPT !.payload.headers =
        SelectSeq(msg.payload.headers, LAMBDA h : ~Named(h, key))]

\* C10: a missing subject, from or date header gives its placeholder, each
\* independently of the others: taking the headers of one name away changes
\* that field to its placeholder and no other field of the result.
C10_MissingHeaderDefaults ==
    pc = "parsed" =>
        \A f \in HeaderFields :
            /\ (\A p \in 1..Len(message.payload.headers) :
                    ~Named(message.payload.headers[p], f.key))
                  => email_data[f.field] = f.default
            /\ parse_email_content(WithoutHeader(message, f.key))
                  = [email_data EXCEPT ![f.field] = f.default]

\* C10 witness: a message with a Subject header and neither From nor Date
\* was parsed: the subject is the header's value, sender and date are their
\* placeholders, and the labels were kept.
C10_Witness ==
    /\ pc = "parsed"
    /\ Len(message.payload.headers) = 1
    /\ message.payload.headers[1].name = <<83, 85, 66, 74, 69, 67, 84>>
    /\ email_data.subject = message.payload.headers[1].value
    /\ email_data.sender = NoSender
    /\ email_data.date = NoDate
    /\ email_data.labels = <<Inbox>>
    /\ email_data.body = <<65>>

(***************************************************************************)
(* main.py with the provider operations of modules/gmail and the oracle    *)
(* call of modules/llm: one action per check of the configuration, per     *)
(* attempt of a retry loop (one API request) and per oracle call.          *)
(***************************************************************************)
\* The ids of the provider's messages, "m1", "m2", ...; of the label when it
\* was there before the run, "L1", when the run created it, "L2", and of a
\* label of another name, "L3".
MsgId(k) == <<109, 48 + k>>
ExistingLabelId == <<76, 49>>
CreatedLabelId  == <<76, 50>>
OtherLabelId    == <<76, 51>>

\* config.LABEL_NAME, 'potential-unnecessary', and a label name that differs
\* from it in case only, 'Potential-Unnecessary'.
LabelName ==
    <<112, 111, 116, 101, 110, 116, 105, 97, 108, 45, 117, 110,
      110, 101, 99, 101, 115, 115, 97, 114, 121>>
OtherLabelName ==
    <<80, 111, 116, 101, 110, 116, 105, 97, 108, 45, 85, 110,
      110, 101, 99, 101, 115, 115, 97, 114, 121>>

\* The labels of the account before the run: the system label INBOX, and a
\* label named OtherLabelName or one named LabelName.
ProviderLabels ==
    { { [name |-> Inbox, id |-> Inbox],
        [name |-> OtherLabelName, id |-> OtherLabelId] },
      { [name |-> Inbox, id |-> Inbox],
        [name |-> LabelName, id |-> ExistingLabelId] } }

\* The message the provider returns for the k-th id of the list: a full
\* message, or one without the 'payload' key.
FetchedMessage(k) ==
    [Message([mimeType |-> TextPlain, body |-> <<DataA>>, parts |-> <<>>],
             <<[name |-> KeySubject, value |-> <<97>>]>>, <<Inbox>>)
        EXCEPT !.id = MsgId(k)]

MessageWithoutPayload(k) == [id |-> MsgId(k), snippet |-> Snippet]

ProviderMessages(k) == { FetchedMessage(k), MessageWithoutPayload(k) }

\* message['payload'] of parse_email_content raises KeyError.
RaisesKeyError(msg) == "payload" \notin DOMAIN msg

\* What `.execute()` of an API request does: it returns or raises HttpError,
\* the error of the provider.
ApiOutcomes == { "ok", "HttpError" }

\* The responses of the oracle in a run: "YES", "NO", "".
OracleResponses == {YES, NO, <<>>}

\* What requests.post of generate_response does: status 200, another status,
\* a timeout, a connection error.
OracleOutcomes == { "200", "500", "Timeout", "ConnectionError" }

\* `for attempt in range(retry_attempts)` has a round left.
InRetryLoop == attempt < retry_attempts

\* Mutant of RetriesLeft: the loop sleeps after every failed attempt, the
\* last one included, and never raises the error.
RetriesLeft_always == TRUE

\* `if attempt < retry_attempts - 1` of the except HttpError clauses: the
\* error is logged and the loop sleeps, otherwise it is raised.
RetriesLeft == attempt < retry_attempts - 1

Count(req, k) == [requests EXCEPT ![req][k] = @ + 1]

RECURSIVE SumOver(_, _)
SumOver(f, n) == IF n = 0 THEN 0 ELSE f[n] + SumOver(f, n - 1)

\* Mutant of SleepAndRetry: the retry does not use up a round of the loop.
SleepAndRetry_same_round(reqs) ==
    /\ requests' = reqs
    /\ attempt' = attempt

\* The except HttpError clause when the loop goes on: time.sleep(retry_delay)
\* and the next round; reqs counts the request and the delay.
SleepAndRetry(reqs) ==
    /\ requests' = reqs
    /\ attempt' = attempt + 1

\* An exception leaves the operation op (on the k-th message, 0 when the
\* operation is not about a message).
Raise(op, k, error) ==
    raised' = raised \cup { [op |-> op, k |-> k, error |-> error] }

\* What the `return` statements of main before the processing loop leave
\* alone.
abortVars == <<retry_attempts, label_id, emails, i, emails_processed,
               unnecessary_emails, saved, fetched, verdict,
               responseVars, htmlVars, parserVars>>

\* Mutant of Abort: the failed step is logged and main goes on to save_results.
Abort_saves(step) ==
    /\ pc' = "save"
    /\ failure' = step
    /\ UNCHANGED abortVars

\* The abort of main: `return` before the processing loop.
Abort(step) ==
    /\ pc' = "aborted"
    /\ failure' = step
    /\ UNCHANGED abortVars

\* Mutant of Retried: the except clause catches every exception.
Retried_any(error) == error # "ok"

\* The HttpErrors the provider has answered with so far in the run: each was
\* either followed by a delay or raised out of its operation.
HttpErrors ==
    requests.sleeps.ensure_label_exists + requests.sleeps.get_emails
        + SumOver(requests.sleeps.get_email_content, MaxEmails)
        + SumOver(requests.sleeps.move_to_label, MaxEmails)
        + Cardinality({ r \in raised : r.error = "HttpError" })

\* What the provider may answer to the next request: it fails at most
\* MaxHttpErrors requests of a run.
ProviderOutcomes ==
    IF HttpErrors < MaxHttpErrors THEN ApiOutcomes ELSE { "ok" }

\* `except HttpError as error`: the exception the retry loops catch.
Retried(error) == error = "HttpError"

\* The end of one round of `for i, email_msg in enumerate(emails)`, by the
\* end of its body or by the except clause of line 178: the next message,
\* or save_results after the last one.
NextEmail ==
    /\ i' = i + 1
    /\ attempt' = 0
    /\ pc' = IF i + 1 <= Len(emails) THEN "fetch" ELSE "save"

\* Mutant of SkipEmail: the except clause ends the loop.
SkipEmail_breaks ==
    /\ i' = i + 1
    /\ attempt' = 0
    /\ pc' = "save"

\* main.py:178-179: the except clause of the loop body logs the error; the
\* loop goes on with the next message.
SkipEmail == NextEmail

\* main.py:45: os.path.exists(config.CREDENTIALS_FILE)
CheckCredentials ==
    /\ pc = "credentials"
    /\ \E exists \in BOOLEAN :
          IF exists THEN pc' = "settings" /\ UNCHANGED <<failure, abortVars>>
                    ELSE Abort("credentials")
    /\ UNCHANGED <<mailbox, attempt, requests, raised, label_attempts>>

\* main.py:59: config.check_ollama_settings()
CheckOllamaSettings ==
    /\ pc = "settings"
    /\ \E set \in BOOLEAN :
          IF set THEN pc' = "availability" /\ UNCHANGED <<failure, abortVars>>
                 ELSE Abort("settings")
    /\ UNCHANGED <<mailbox, attempt, requests, raised, label_attempts>>

\* main.py:74: ollama_client.check_availability()
CheckAvailability ==
    /\ pc = "availability"
    /\ \E available \in BOOLEAN :
          IF available THEN pc' = "auth" /\ UNCHANGED <<failure, abortVars>>
                       ELSE Abort("availability")
    /\ UNCHANGED <<mailbox, attempt, requests, raised, label_attempts>>

\* main.py:90-99: authenticate_gmail raises or returns the service.
Authenticate ==
    /\ pc = "auth"
    /\ \E ok \in BOOLEAN :
          IF ok THEN pc' = "label" /\ UNCHANGED <<failure, abortVars, raised>>
                ELSE /\ Raise("authenticate_gmail", 0, "Exception")
                     /\ Abort("auth")
    /\ UNCHANGED <<mailbox, attempt, requests, label_attempts>>

\* Mutant of label_found: the names are compared without regard to case.
label_found_ignoring_case(labels) ==
    { label \in labels : lower(label.name) = lower(LabelName) }

\* label_ops.py:36-39: the listed labels whose name is label_name.
label_found(labels) == { label \in labels : label.name = LabelName }

\* One round of the loop of ensure_label_exists: the labels.list request,
\* then the labels.create request when no listed label has the name; or the
\* raise of line 63 when the loop has no round.
EnsureLabelExists ==
    /\ pc = "label"
    /\ IF ~InRetryLoop
       THEN /\ Raise("ensure_label_exists", 0, "Exception")
            /\ Abort("label")
            /\ UNCHANGED <<mailbox, attempt, requests, label_attempts>>
       ELSE \E list \in ProviderOutcomes, create \in ProviderOutcomes :
              LET found   == IF list = "ok" THEN label_found(mailbox.labels)
                                            ELSE {}
                  creates == list = "ok" /\ found = {}
                  error   == IF list # "ok" THEN list
                             ELSE IF creates THEN create ELSE "ok"
                  listed  == [requests EXCEPT !.labels_list = @ + 1]
                  reqs    == IF creates
                                THEN [listed EXCEPT !.labels_create = @ + 1]
                                ELSE listed
                  round   == [list   |-> list,
                              labels |-> IF list = "ok" THEN mailbox.labels
                                                        ELSE {},
                              create |-> IF creates THEN create ELSE "none"]
              IN  /\ creates \/ create = "ok"
                  /\ label_attempts' = Append(label_attempts, round)
                  /\ IF error = "ok"
                     THEN /\ label_id' = IF creates THEN CreatedLabelId
                                         ELSE (CHOOSE label \in found : TRUE).id
                          /\ mailbox' =
                               IF creates
                               THEN [mailbox EXCEPT !.labels = @ \cup
                                       { [name |-> LabelName,
                                          id |-> CreatedLabelId] }]
                               ELSE mailbox
                          /\ requests' = reqs
                          /\ attempt' = 0
                          /\ pc' = "list"
                          /\ UNCHANGED <<retry_attempts, emails, i,
                                         emails_processed, unnecessary_emails,
                                         saved, fetched, verdict, raised,
                                         failure, responseVars, htmlVars,
                                         parserVars>>
                     ELSE IF Retried(error) /\ RetriesLeft
                     THEN /\ SleepAndRetry(
                                [reqs EXCEPT !.sleeps.ensure_label_exists = @ + 1])
                          /\ UNCHANGED <<pc, retry_attempts, mailbox, label_id,
                                         emails, i, emails_processed,
                                         unnecessary_emails, saved, fetched,
                                         verdict, raised, failure,
                                         responseVars, htmlVars, parserVars>>
                     ELSE /\ Raise("ensure_label_exists", 0, error)
                          /\ Abort("label")
                          /\ requests' = reqs
                          /\ UNCHANGED <<mailbox, attempt>>

\* One round of the loop of get_emails: the messages.list request; or
\* `return []` when the loop has no round.
GetEmails ==
    /\ pc = "list"
    /\ IF ~InRetryLoop
       THEN /\ emails' = <<>>
            /\ i' = 1
            /\ pc' = "save"
            /\ UNCHANGED <<retry_attempts, mailbox, label_id, attempt,
                           emails_processed, unnecessary_emails, saved,
                           requests, fetched, verdict, raised, label_attempts,
                           failure, responseVars, htmlVars, parserVars>>
       ELSE \E list \in ProviderOutcomes :
              LET reqs == [requests EXCEPT !.messages_list = @ + 1]
              IN  /\ UNCHANGED label_attempts
                  /\ IF list = "ok"
                     THEN \E n \in 0..MaxEmails :
                            /\ emails' = [k \in 1..n |-> [id |-> MsgId(k)]]
                            /\ i' = 1
                            /\ attempt' = 0
                            /\ pc' = IF n >= 1 THEN "fetch" ELSE "save"
                            /\ requests' = reqs
                            /\ UNCHANGED <<retry_attempts, mailbox, label_id,
                                           emails_processed, unnecessary_emails,
                                           saved, fetched, verdict, raised,
                                           failure, responseVars, htmlVars,
                                           parserVars>>
                     ELSE IF Retried(list) /\ RetriesLeft
                     THEN /\ SleepAndRetry(
                                [reqs EXCEPT !.sleeps.get_emails = @ + 1])
                          /\ UNCHANGED <<pc, retry_attempts, mailbox, label_id,
                                         emails, i, emails_processed,
                                         unnecessary_emails, saved, fetched,
                                         verdict, raised, failure,
                                         responseVars, htmlVars, parserVars>>
                     ELSE /\ Raise("get_emails", 0, list)
                          /\ Abort("list")
                          /\ requests' = reqs
                          /\ UNCHANGED <<mailbox, attempt>>

\* One round of the loop of get_email_content for emails[i]: the
\* messages.get request, whose result is assigned to message, and
\* parse_email_content; an HttpError is retried or
\* raised, any other exception of the round (the KeyError of
\* parse_email_content) leaves the function at once, and a loop without a
\* round raises (line 86); main's except clause skips the message.
GetEmailContent ==
    /\ pc = "fetch"
    /\ IF ~InRetryLoop
       THEN /\ Raise("get_email_content", i, "Exception")
            /\ SkipEmail
            /\ UNCHANGED <<requests, fetched, parserVars>>
       ELSE \E get \in ProviderOutcomes, msg \in ProviderMessages(i) :
              LET reqs  == Count("messages_get", i)
                  error == IF get # "ok" THEN get
                           ELSE IF RaisesKeyError(msg) THEN "KeyError"
                           ELSE "ok"
              IN  /\ get = "ok" \/ msg = FetchedMessage(i)
                  /\ IF error = "ok"
                     THEN /\ message' = msg
                          /\ email_data' = parse_email_content(msg)
                          /\ requests' = reqs
                          /\ fetched' = fetched \cup {i}
                          /\ attempt' = 0
                          /\ pc' = "classify"
                          /\ UNCHANGED <<i, body_html, body_text, raised>>
                     ELSE IF Retried(error) /\ RetriesLeft
                     THEN /\ SleepAndRetry(
                                [reqs EXCEPT !.sleeps.get_email_content[i] = @ + 1])
                          /\ message' = IF get = "ok" THEN msg ELSE message
                          /\ UNCHANGED <<pc, i, fetched, body_html, body_text,
                                         email_data, raised>>
                     ELSE /\ Raise("get_email_content", i, error)
                          /\ requests' = reqs
                          /\ SkipEmail
                          /\ message' = IF get = "ok" THEN msg ELSE message
                          /\ UNCHANGED <<fetched, body_html, body_text,
                                         email_data>>
    /\ UNCHANGED <<retry_attempts, mailbox, label_id, emails,
                   emails_processed, unnecessary_emails, saved, verdict,
                   label_attempts, failure, responseVars, htmlVars>>

\* Mutant of should_move: the message is moved whatever the verdict.
should_move_always(necessary) == TRUE

\* main.py:162: `if not is_necessary`
should_move(necessary) == ~necessary

\* Mutant of on_oracle_error: a failed oracle call counts as unnecessary.
on_oracle_error_unnecessary == FALSE

\* analyzer.py:50-53: `except Exception: return True`
on_oracle_error == TRUE

\* Mutant of result_record: the record also carries the body.
result_record_with_body(id, data, necessary) ==
    [id |-> id, subject |-> data.subject, sender |-> data.sender,
     is_necessary |-> necessary, body |-> data.body]

\* main.py:154-159: the result record of a classified message.
result_record(id, data, necessary) ==
    [id |-> id, subject |-> data.subject, sender |-> data.sender,
     is_necessary |-> necessary]

\* main.py:151-176 up to the call of move_to_label: check_necessity (the
\* oracle request, its response parsed, or True when the request raises), the
\* result appended to emails_processed, and the branch on the verdict.
CheckNecessity ==
    /\ pc = "classify"
    /\ \E outcome \in OracleOutcomes, text \in OracleResponses :
          LET answered  == outcome = "200"
              necessary == IF answered THEN parse_necessity_response(text)
                           ELSE on_oracle_error
              result    == result_record(emails[i].id, email_data, necessary)
          IN  /\ answered \/ text = <<>>
              /\ response_text' = text
              /\ is_necessary' = necessary
              /\ emails_processed' = Append(emails_processed, result)
              /\ verdict' = [verdict EXCEPT ![i] =
                                IF necessary THEN "necessary" ELSE "unnecessary"]
              /\ requests' = Count("generate", i)
              /\ IF answered THEN UNCHANGED raised
                             ELSE Raise("generate_response", i, "Exception")
              /\ IF should_move(necessary)
                 THEN pc' = "move" /\ attempt' = 0 /\ UNCHANGED i
                 ELSE NextEmail
    /\ UNCHANGED <<retry_attempts, mailbox, label_id, emails,
                   unnecessary_emails, saved, fetched, label_attempts, failure,
                   htmlVars, parserVars>>

\* One round of the loop of move_to_label for emails[i]: the messages.modify
\* request adding the label and removing INBOX; True appends the result to
\* unnecessary_emails, an HttpError is retried or raised to main's except
\* clause, and a loop without a round returns False.
MoveToLabel ==
    /\ pc = "move"
    /\ IF ~InRetryLoop
       THEN /\ NextEmail
            /\ UNCHANGED <<requests, mailbox, unnecessary_emails, raised>>
       ELSE \E modify \in ProviderOutcomes :
              LET reqs == Count("messages_modify", i)
              IN  IF modify = "ok"
                  THEN /\ requests' = reqs
                       /\ mailbox' = [mailbox EXCEPT !.relabeled = @ \cup {i}]
                       /\ unnecessary_emails' =
                             Append(unnecessary_emails,
                                    emails_processed[Len(emails_processed)])
                       /\ NextEmail
                       /\ UNCHANGED raised
                  ELSE IF Retried(modify) /\ RetriesLeft
                  THEN /\ SleepAndRetry(
                             [reqs EXCEPT !.sleeps.move_to_label[i] = @ + 1])
                       /\ UNCHANGED <<pc, i, mailbox, unnecessary_emails, raised>>
                  ELSE /\ Raise("move_to_label", i, modify)
                       /\ requests' = reqs
                       /\ SkipEmail
                       /\ UNCHANGED <<mailbox, unnecessary_emails>>
    /\ UNCHANGED <<retry_attempts, label_id, emails, emails_processed, saved,
                   fetched, verdict, label_attempts, failure, responseVars,
                   htmlVars, parserVars>>

\* main.py:183: save_results is handed the two lists and writes the summary
\* of the run.
SaveResults ==
    /\ pc = "save"
    /\ saved' = Append(saved,
                    [total_processed |-> Len(emails_processed),
                     unnecessary_count |-> Len(unnecessary_emails),
                     unnecessary_emails |-> unnecessary_emails])
    /\ pc' = "done"
    /\ UNCHANGED <<retry_attempts, mailbox, label_id, emails, i, attempt,
                   emails_processed, unnecessary_emails, requests, fetched,
                   verdict, raised, label_attempts, failure, responseVars,
                   htmlVars, parserVars>>

InitMain ==
    /\ pc = "credentials"
    /\ retry_attempts \in 0..MaxRetry
    /\ mailbox \in [labels : ProviderLabels, relabeled : {{}}]
    /\ label_id = <<>>
    /\ emails = <<>>
    /\ i = 0
    /\ attempt = 0
    /\ emails_processed = <<>>
    /\ unnecessary_emails = <<>>
    /\ saved = <<>>
    /\ requests = NoRequests
    /\ fetched = {}
    /\ verdict = [k \in 1..MaxEmails |-> "none"]
    /\ raised = {}
    /\ label_attempts = <<>>
    /\ failure = "none"
    /\ response_text = <<>> /\ is_necessary = TRUE
    /\ html_content = <<>> /\ html_text = <<>>
    /\ message = <<>> /\ email_data = <<>>
    /\ body_html = <<>> /\ body_text = <<>>

Next ==
    \/ CheckCredentials
    \/ CheckOllamaSettings
    \/ CheckAvailability
    \/ Authenticate
    \/ EnsureLabelExists
    \/ GetEmails
    \/ GetEmailContent
    \/ CheckNecessity
    \/ MoveToLabel
    \/ SaveResults

Spec == InitMain /\ [][Next]_vars

(***************************************************************************)
(* Claims about the run of main.                                           *)
(***************************************************************************)
\* C2: a relabel request (messages.modify) is issued for a message only if
\* that message was fetched and check_necessity returned False for it, in the
\* round of the loop that is running or ran for it; a message whose verdict
\* is necessary is never modified.
C2_RelabelOnlyUnnecessary ==
    /\ pc = "move" =>
          /\ i \in fetched
          /\ verdict[i] = "unnecessary"
          /\ is_necessary = FALSE
    /\ \A k \in 1..MaxEmails :
        /\ requests.messages_modify[k] > 0 =>
              /\ k \in fetched
              /\ verdict[k] = "unnecessary"
              /\ k <= i
        /\ k \in mailbox.relabeled => requests.messages_modify[k] > 0
        /\ verdict[k] = "necessary" =>
              /\ requests.messages_modify[k] = 0
              /\ k \notin mailbox.relabeled

\* C2 witness: in one run the first message was judged necessary and left
\* alone, and the second was judged unnecessary and relabeled.
C2_Witness ==
    /\ pc = "done"
    /\ verdict[1] = "necessary"
    /\ verdict[2] = "unnecessary"
    /\ mailbox.relabeled = {2}
    /\ requests.messages_modify[2] > 0

(***************************************************************************)
(* Claims about the retry loops of the provider operations.                *)
(***************************************************************************)
HasRaised(op, k, error) == [op |-> op, k |-> k, error |-> error] \in raised

RaisedBy(op, k) == { r \in raised : r.op = op /\ r.k = k }

\* The operation has issued a request and its loop is no longer running.
LabelDone == requests.labels_list >= 1 /\ pc # "label"
ListDone  == requests.messages_list >= 1 /\ pc # "list"
GetDone(k)  == requests.messages_get[k] >= 1 /\ ~(pc = "fetch" /\ i = k)
MoveDone(k) == requests.messages_modify[k] >= 1 /\ ~(pc = "move" /\ i = k)

\* The operation returned a value to main.
LabelOk == LabelDone /\ label_id # <<>>
ListOk  == ListDone /\ failure # "list"
GetOk(k)  == k \in fetched
MoveOk(k) == k \in mailbox.relabeled

\* The discipline of one retry loop that made `rounds` attempts and waited
\* `waits` times: at most retry_attempts attempts; while it runs every attempt
\* so far failed and was followed by one wait; once it is over the waits are
\* those between two attempts (none after the last, so none after a success);
\* it is over without a value only by raising, and it raises the HttpError of
\* the provider only after retry_attempts attempts.
RetryDiscipline(op, k, rounds, waits, running, over, ok) ==
    /\ rounds <= retry_attempts
    /\ running => waits = rounds /\ rounds = attempt
    /\ over => waits = rounds - 1
    /\ over /\ ~ok => RaisedBy(op, k) # {}
    /\ ok => RaisedBy(op, k) = {}
    /\ HasRaised(op, k, "HttpError") =>
          over /\ ~ok /\ rounds = retry_attempts

DisciplineOfAll ==
    /\ RetryDiscipline("ensure_label_exists", 0, requests.labels_list,
                       requests.sleeps.ensure_label_exists,
                       pc = "label", LabelDone, LabelOk)
    /\ RetryDiscipline("get_emails", 0, requests.messages_list,
                       requests.sleeps.get_emails,
                       pc = "list", ListDone, ListOk)
    /\ \A k \in 1..MaxEmails :
        /\ RetryDiscipline("get_email_content", k, requests.messages_get[k],
                           requests.sleeps.get_email_content[k],
                           pc = "fetch" /\ i = k, GetDone(k), GetOk(k))
        /\ RetryDiscipline("move_to_label", k, requests.messages_modify[k],
                           requests.sleeps.move_to_label[k],
                           pc = "move" /\ i = k, MoveDone(k), MoveOk(k))

FailedMessage(k) ==
    RaisedBy("get_email_content", k) \cup RaisedBy("move_to_label", k) # {}

InLoop == pc \in {"fetch", "classify", "move"}

\* The content of the k-th message was requested.
Handled(k) == requests.messages_get[k] >= 1

ProcessedIds == { emails_processed[p].id : p \in 1..Len(emails_processed) }

UnnecessaryIds == { unnecessary_emails[p].id : p \in 1..Len(unnecessary_emails) }

\* C13: a failure of the content fetch, of the normalization or of the
\* relabel of one message skips that message only:
\* the run is not aborted, the loop is at a later message or over, the messages
\* are handled in list order without a gap, and once the run is done every
\* message of the list was handled and save_results was called exactly once.
C13_FailureSkipsOneMessage ==
    /\ InLoop => i \in 1..Len(emails)
    /\ \A k \in 1..MaxEmails :
        /\ FailedMessage(k) =>
              /\ k \in 1..Len(emails)
              /\ i > k
              /\ pc \in {"fetch", "classify", "move", "save", "done"}
              /\ InLoop \/ i = Len(emails) + 1
              /\ k \notin mailbox.relabeled
              /\ MsgId(k) \notin UnnecessaryIds
        /\ RaisedBy("get_email_content", k) # {} =>
              /\ requests.generate[k] = 0
              /\ requests.messages_modify[k] = 0
              /\ MsgId(k) \notin ProcessedIds
        /\ Handled(k) =>
              /\ k <= i
              /\ k <= Len(emails)
              /\ \A j \in 1..(k - 1) : Handled(j)
        /\ k < i /\ k <= Len(emails) => Handled(k) /\ GetDone(k)
    /\ Len(saved) = (IF pc = "done" THEN 1 ELSE 0)
    /\ pc \in {"save", "done"} =>
          /\ i = Len(emails) + 1
          /\ \A k \in 1..Len(emails) : Handled(k)

\* C13 witness: the normalization of the first of two messages raised, the
\* second was fetched, judged unnecessary and relabeled, and the results were
\* saved once with one processed message.
C13_Witness ==
    /\ pc = "done"
    /\ Len(emails) = 2
    /\ HasRaised("get_email_content", 1, "KeyError")
    /\ 2 \in fetched
    /\ verdict[2] = "unnecessary"
    /\ mailbox.relabeled = {2}
    /\ Len(saved) = 1
    /\ saved[1].total_processed = 1
    /\ saved[1].unnecessary_count = 1

GlobalSteps == {"credentials", "settings", "availability", "auth", "label", "list"}

NoMessageTouched ==
    /\ \A k \in 1..MaxEmails :
          /\ requests.messages_get[k] = 0
          /\ requests.generate[k] = 0
          /\ requests.messages_modify[k] = 0
          /\ verdict[k] = "none"
    /\ fetched = {}
    /\ mailbox.relabeled = {}
    /\ emails_processed = <<>>
    /\ unnecessary_emails = <<>>

\* C14: when the credentials check, the model-service checks, the
\* authentication, the label setup or the message listing fails, main has
\* returned (no step of it can follow), no message content was requested, no
\* message was classified or relabeled and save_results was not called; a raise
\* of authenticate_gmail, ensure_label_exists or get_emails is such a failure,
\* and a failure before the provider is reached issues no provider request.
C14_GlobalFailureAborts ==
    /\ failure \in GlobalSteps \cup {"none"}
    /\ failure # "none" <=> pc = "aborted"
    /\ failure # "none" =>
          /\ ~ENABLED Next
          /\ NoMessageTouched
          /\ saved = <<>>
          /\ emails = <<>>
    /\ failure \in {"credentials", "settings", "availability", "auth"} =>
          requests = NoRequests /\ label_attempts = <<>>
    /\ failure = "label" => label_id = <<>> /\ requests.messages_list = 0
    /\ RaisedBy("authenticate_gmail", 0) # {} => failure = "auth"
    /\ RaisedBy("ensure_label_exists", 0) # {} => failure = "label"
    /\ RaisedBy("get_emails", 0) # {} => failure = "list"

\* C14 witness: the label was found, the listing failed at both attempts, and
\* main returned with nothing fetched and nothing saved.
C14_Witness ==
    /\ pc = "aborted"
    /\ failure = "list"
    /\ retry_attempts = 2
    /\ label_id = ExistingLabelId
    /\ requests.messages_list = 2
    /\ HasRaised("get_emails", 0, "HttpError")
    /\ NoMessageTouched
    /\ saved = <<>>

(***************************************************************************)
(* Claims about the verdicts and the results of a run.                     *)
(***************************************************************************)
OracleFailed(k) == HasRaised("generate_response", k, "Exception")

\* C16: when generate_response raised for a message, check_necessity returned
\* True: the verdict of the message is necessary, no relabel request is ever
\* issued for it, it is not relabeled and not in the unnecessary list, and it
\* is in the processed list, with is_necessary True, and counted in the saved
\* total.
C16_OracleFailureKeeps ==
    \A k \in 1..MaxEmails :
        OracleFailed(k) =>
            /\ requests.generate[k] = 1
            /\ verdict[k] = "necessary"
            /\ ~(pc = "move" /\ i = k)
            /\ requests.messages_modify[k] = 0
            /\ k \notin mailbox.relabeled
            /\ MsgId(k) \notin UnnecessaryIds
            /\ \E p \in 1..Len(emails_processed) :
                  /\ emails_processed[p].id = MsgId(k)
                  /\ emails_processed[p].is_necessary = TRUE
            /\ pc = "done" =>
                  saved[1].total_processed
                     >= Cardinality({j \in 1..MaxEmails : OracleFailed(j)})

\* C16 witness: the oracle call failed for the first message and answered NO
\* for the second; only the second was relabeled and both were counted.
C16_Witness ==
    /\ pc = "done"
    /\ OracleFailed(1)
    /\ ~OracleFailed(2)
    /\ verdict[1] = "necessary"
    /\ verdict[2] = "unnecessary"
    /\ mailbox.relabeled = {2}
    /\ saved[1].total_processed = 2
    /\ saved[1].unnecessary_count = 1

\* s is a sub-list of t: the entries of s are entries of t, in the same order.
RECURSIVE SubList(_, _)
SubList(s, t) ==
    IF s = <<>> THEN TRUE
    ELSE IF t = <<>> THEN FALSE
    ELSE IF Head(s) = Head(t) THEN SubList(Tail(s), Tail(t))
    ELSE SubList(s, Tail(t))

ResultFields == {"id", "subject", "sender", "is_necessary"}

\* C17: the unnecessary list is a sub-list of the processed list; each of its
\* entries has is_necessary False and is of a message whose relabel request
\* succeeded; a message judged unnecessary whose relabel raised after the
\* retries is in the processed list only; the summary handed to save_results
\* has unnecessary_count <= total_processed <= number of listed ids, and its
\* records have the fields id, subject, sender, is_necessary and no body.
C17_SummaryLists ==
    /\ SubList(unnecessary_emails, emails_processed)
    /\ Len(unnecessary_emails) <= Len(emails_processed)
    /\ Len(emails_processed) <= Len(emails)
    /\ \A p \in 1..Len(unnecessary_emails) :
          /\ unnecessary_emails[p].is_necessary = FALSE
          /\ \E k \in 1..Len(emails) :
                /\ unnecessary_emails[p].id = emails[k].id
                /\ k \in mailbox.relabeled
                /\ requests.messages_modify[k] >= 1
                /\ RaisedBy("move_to_label", k) = {}
    /\ \A p \in 1..Len(emails_processed) :
          DOMAIN emails_processed[p] = ResultFields
    /\ \A k \in 1..MaxEmails :
          verdict[k] = "unnecessary" /\ HasRaised("move_to_label", k, "HttpError")
             => /\ MsgId(k) \in ProcessedIds
                /\ MsgId(k) \notin UnnecessaryIds
    /\ pc = "done" =>
          /\ Len(saved) = 1
          /\ saved[1].unnecessary_emails = unnecessary_emails
          /\ saved[1].unnecessary_count = Len(unnecessary_emails)
          /\ saved[1].total_processed = Len(emails_processed)
          /\ saved[1].unnecessary_count <= saved[1].total_processed
          /\ saved[1].total_processed <= Len(emails)
          /\ \A p \in 1..Len(saved[1].unnecessary_emails) :
                DOMAIN saved[1].unnecessary_emails[p] = ResultFields

\* C17 witness: both messages were judged unnecessary; the relabel of the
\* first raised after the retries and that of the second succeeded, and the
\* summary counts two processed messages and lists the second only.
C17_Witness ==
    /\ pc = "done"
    /\ verdict[1] = "unnecessary"
    /\ verdict[2] = "unnecessary"
    /\ HasRaised("move_to_label", 1, "HttpError")
    /\ mailbox.relabeled = {2}
    /\ saved[1].total_processed = 2
    /\ saved[1].unnecessary_count = 1
    /\ saved[1].unnecessary_emails[1].id = MsgId(2)

(***************************************************************************)
(* Claims about the label setup.                                           *)
(***************************************************************************)
\* The labels a round listed whose name is exactly label_name.
ExactlyNamed(round) == { label \in round.labels : label.name = LabelName }

CreateRounds(outcomes) ==
    { r \in 1..Len(label_attempts) : label_attempts[r].create \in outcomes }

\* C19: a round of ensure_label_exists issues a create request only if its
\* own listing succeeded and listed no label named exactly label_name; a round
\* that lists such a label is the last one, returns that label's id and issues
\* no create request; at most one create request succeeds, in the last round;
\* and the id returned is that of the listed label of that name or of the
\* created label.
C19_CreateOnlyWhenMissing ==
    /\ Len(label_attempts) = requests.labels_list
    /\ requests.labels_create = Cardinality(CreateRounds({"ok", "HttpError"}))
    /\ Cardinality(CreateRounds({"ok"})) <= 1
    /\ \A r \in 1..Len(label_attempts) :
          LET round == label_attempts[r]
          IN  /\ round.create # "none" =>
                    round.list = "ok" /\ ExactlyNamed(round) = {}
              /\ round.list = "ok" /\ ExactlyNamed(round) # {} =>
                    /\ round.create = "none"
                    /\ r = Len(label_attempts)
                    /\ pc # "label"
                    /\ label_id \in { label.id : label \in ExactlyNamed(round) }
              /\ round.create = "ok" =>
                    /\ r = Len(label_attempts)
                    /\ pc # "label"
                    /\ label_id = CreatedLabelId
    /\ label_id # <<>> =>
          /\ label_attempts # <<>>
          /\ LET last == label_attempts[Len(label_attempts)]
             IN  \/ label_id \in { label.id : label \in ExactlyNamed(last) }
                 \/ last.create = "ok" /\ label_id = CreatedLabelId
          /\ [name |-> LabelName, id |-> label_id] \in mailbox.labels
    /\ label_id = <<>> => CreateRounds({"ok"}) = {}

\* C19 witness: the account has a label whose name differs in case only; the
\* first round listed it and its create request failed, the second round
\* listed it again and created the label, whose id was returned.
C19_Witness ==
    /\ Len(label_attempts) = 2
    /\ label_attempts[1].list = "ok"
    /\ label_attempts[1].create = "HttpError"
    /\ [name |-> OtherLabelName, id |-> OtherLabelId] \in label_attempts[2].labels
    /\ label_attempts[2].create = "ok"
    /\ label_id = CreatedLabelId
    /\ requests.labels_create = 2
    /\ pc = "list"

(***************************************************************************)
(* Claims about the exceptions the retry loops do not catch.               *)
(***************************************************************************)
NormalizationFailed(k) == HasRaised("get_email_content", k, "KeyError")

\* C20: the retry loops catch HttpError only. When parse_email_content raises
\* KeyError on the message fetched for the k-th id, get_email_content is left
\* at once, whatever attempts remain: that KeyError is raised, no attempt and
\* no wait follows it (the waits are those after the earlier HttpErrors), and
\* main's except clause skips the message, which is never classified nor
\* relabeled, while the run goes on.
C20_OnlyHttpErrorRetried ==
    \A k \in 1..MaxEmails :
        /\ message = MessageWithoutPayload(k) =>
              /\ NormalizationFailed(k)
              /\ ~(pc = "fetch" /\ i = k)
              /\ i > k
        /\ NormalizationFailed(k) =>
              /\ requests.messages_get[k] \in 1..retry_attempts
              /\ requests.sleeps.get_email_content[k]
                    = requests.messages_get[k] - 1
              /\ RaisedBy("get_email_content", k)
                    = { [op |-> "get_email_content", k |-> k,
                         error |-> "KeyError"] }
              /\ k \notin fetched
              /\ verdict[k] = "none"
              /\ requests.generate[k] = 0
              /\ requests.messages_modify[k] = 0
              /\ k \notin mailbox.relabeled
              /\ MsgId(k) \notin ProcessedIds
              /\ MsgId(k) \notin UnnecessaryIds
              /\ i > k
              /\ pc \in {"fetch", "classify", "move", "save", "done"}
        /\ \A r \in raised :
              r.error = "KeyError" => r.op = "get_email_content"

\* C20 witness: with two attempts allowed, the first message came without
\* payload at the first attempt; get_email_content was left after that one
\* request without a wait, and the second message was fetched and classified.
C20_Witness ==
    /\ pc = "done"
    /\ retry_attempts = 2
    /\ NormalizationFailed(1)
    /\ requests.messages_get[1] = 1
    /\ requests.sleeps.get_email_content[1] = 0
    /\ 1 \notin fetched
    /\ 2 \in fetched
    /\ verdict[2] # "none"
    /\ Len(saved) = 1

(***************************************************************************)
(* Termination of main and the requests of a run.  main is one sequential  *)
(* thread: a step that can be taken is taken (every request returns or     *)
(* raises, the delays are finite), which is weak fairness of Next.         *)
(***************************************************************************)
SpecLive == InitMain /\ [][Next]_vars /\ WF_vars(Next)

Terminated == pc \in {"done", "aborted"}

\* The position in the fetched list of the message with this id.
ListIndex(id) == CHOOSE k \in 1..MaxEmails : MsgId(k) = id

\* The requests issued for the k-th message id.
RequestsFor(k) ==
    <<requests.messages_get[k], requests.generate[k],
      requests.messages_modify[k]>>

\* The requests of a run stay within the retry bounds, only the ids of the
\* list are handled, each recorded once and in list order, and save_results
\* is called once in a run that ends normally and never in an aborted one.
ResourcesBounded ==
    /\ \A k \in 1..MaxEmails :
          /\ requests.messages_get[k] <= retry_attempts
          /\ requests.generate[k] <= 1
          /\ requests.messages_modify[k] <= retry_attempts
          /\ k > Len(emails) => RequestsFor(k) = <<0, 0, 0>>
          /\ InLoop /\ k > i => RequestsFor(k) = <<0, 0, 0>>
    /\ \A p, q \in 1..Len(emails_processed) :
          p < q => ListIndex(emails_processed[p].id)
                      < ListIndex(emails_processed[q].id)
    /\ \A p, q \in 1..Len(unnecessary_emails) :
          p < q => ListIndex(unnecessary_emails[p].id)
                      < ListIndex(unnecessary_emails[q].id)
    /\ Len(emails) <= MaxEmails
    /\ Len(saved) = IF pc = "done" THEN 1 ELSE 0
    /\ Terminated => ~ENABLED Next

\* The loop of main moves through the list one id at a time and never comes
\* back to an id it has left.
HandledInListOrder ==
    /\ i' \in {i, i + 1} \/ (pc = "list" /\ i' = 1)
    /\ \A k \in 1..MaxEmails :
          (pc \in {"fetch", "classify", "move", "save", "done"} /\ k < i)
              => RequestsFor(k)' = RequestsFor(k)

\* C21: every run of main terminates, by an early abort or by one call of
\* save_results, whatever the list of fetched ids, retry_attempts >= 0 and the
\* failures of the provider and of the oracle; each id of the list is handled
\* at most once and in list order, with at most retry_attempts content
\* requests, at most one oracle request and at most retry_attempts relabel
\* requests.
C21_RunTerminates ==
    /\ []ResourcesBounded
    /\ [][HandledInListOrder]_vars
    /\ <>[]Terminated

\* C21 witness: a run over two ids with two attempts allowed has ended with
\* its summary saved; the content of the first id was requested twice and
\* its fetch failed, the second id was fetched at once, classified by one
\* oracle request and relabeled by one request.
C21_Witness ==
    /\ pc = "done"
    /\ Len(saved) = 1
    /\ retry_attempts = 2
    /\ Len(emails) = 2
    /\ RequestsFor(1) = <<2, 0, 0>>
    /\ HasRaised("get_email_content", 1, "HttpError")
    /\ RequestsFor(2) = <<1, 1, 1>>
    /\ 2 \in mailbox.relabeled
    /\ ProcessedIds = {MsgId(2)}

====
